---- MODULE Spec2Model ----
(***************************************************************************)
(* Model of src/server/main.py of dhwani-server: the FastAPI gateway with  *)
(* its /chat, /v1/audio/speech, /transcribe/, /transcribe_batch/ and       *)
(* /load_all_models handlers.  Every handler is an `async def` served by   *)
(* one uvicorn event loop; the collaborator calls inside the handlers are  *)
(* synchronous, so a handler keeps the loop from one `await` to the next.  *)
(***************************************************************************)
EXTENDS Integers, Sequences, FiniteSets, TLC

VARIABLES
    settings,   \* Settings(): the configured rate limits and token budget
    loaded,     \* the model managers whose load call has returned
    hits,       \* limiter storage: hits of the client in the current window, per route
    loop,       \* the request whose handler runs on the event loop, 0 when it is free
    pc,         \* position of each request
    req,        \* what the client sent, per request
    loc,        \* the handler's local variables, per request
    calls,      \* collaborator calls each request has made, in order
    resp,       \* the response each request got
    storage     \* temporary files that exist on disk

vars == <<settings, loaded, hits, loop, pc, req, loc, calls, resp, storage>>

----------------------------------------------------------------------------
(* Bounds of the model *)

NumReq == 2          \* request slots served concurrently
MaxLimit == 2        \* largest per-window count a configured rate limit takes
MaxBatch == 2        \* most uploads in one batch request
MaxDuration == 3     \* longest decoded audio, in seconds

Req == 1..NumReq

----------------------------------------------------------------------------
(* Text: a string is kept as its runs of equal characters, in order *)

Run(c, n) == [ch |-> c, n |-> n]

RECURSIVE TextLen(_)
\* len(v): the number of characters
TextLen(v) == IF v = <<>> THEN 0 ELSE Head(v).n + TextLen(Tail(v))

IsSpace(run) == run.ch = " "

\* str.strip(): the text without its leading and trailing whitespace
Strip(v) ==
    IF \A i \in 1..Len(v) : IsSpace(v[i]) THEN <<>>
    ELSE LET first == CHOOSE i \in 1..Len(v) :
                          ~IsSpace(v[i]) /\ \A j \in 1..(i - 1) : IsSpace(v[j])
             last  == CHOOSE i \in 1..Len(v) :
                          ~IsSpace(v[i]) /\ \A j \in (i + 1)..Len(v) : IsSpace(v[j])
         IN  SubSeq(v, first, last)

----------------------------------------------------------------------------
(* Settings and request models *)

\* Settings.max_tokens
max_tokens == 512

\* ChatRequest.prompt_must_be_valid: the length ceiling of a prompt
MaxPromptLen == 1000

\* ChatRequest.prompt_must_be_valid: TRUE when the validator raises ValueError
PromptTooLongMut(v) == TextLen(v) >= MaxPromptLen
PromptTooLong(v) == TextLen(v) > MaxPromptLen

\* ChatRequest.prompt_must_be_valid: the value the validator returns
prompt_must_be_valid(v) == Strip(v)

\* Settings(): rate limits "<count>/minute" with a digit count, any token budget
SettingsValues ==
    [chat_rate_limit : 1..MaxLimit, speech_rate_limit : 1..MaxLimit,
     max_tokens : {max_tokens}]

----------------------------------------------------------------------------
(* Collaborators: fixed functions of their arguments *)

\* TranslationManager(src, dst).translate(text)
Translate(text, src, dst) == [op |-> "translate", src |-> src, dst |-> dst, text |-> text]

\* trans_to_en = TranslationManager("kan_Knda", "eng_Latn")
trans_to_en(text) == Translate(text, "kan_Knda", "eng_Latn")

\* trans_to_kn = TranslationManager("eng_Latn", "kan_Knda")
trans_to_kn(text) == Translate(text, "eng_Latn", "kan_Knda")

\* llm_manager.generate(text, max_tokens)
Generate(text, budget) == [op |-> "generate", text |-> text, max_tokens |-> budget]

\* An exception raised by the named call
Exc(what) == [op |-> "exception", what |-> what]

----------------------------------------------------------------------------
(* Responses *)

Response(status, body) == [status |-> status, body |-> body]

NoResp == Response(0, [op |-> "none"])
NoReq == [route |-> "none"]
NoLoc == [route |-> "none"]

\* HTTPException(status_code, detail)
HTTPException(status, detail, cause) ==
    Response(status, [op |-> "detail", detail |-> detail, cause |-> cause])

\* slowapi's RateLimitExceeded, an HTTPException with status 429
RateLimitExceeded(route) == HTTPException(429, "rate limit exceeded", Exc(route))

\* FastAPI's answer to a body the request model rejects
RequestValidationError(field) == HTTPException(422, "validation error", Exc(field))

----------------------------------------------------------------------------
(* The limiter *)

\* @limiter.limit(settings.chat_rate_limit) on chat
ChatLimit == settings.chat_rate_limit

\* @limiter.limit(settings.speech_rate_limit) on generate_audio
SpeechLimitMut == settings.chat_rate_limit
SpeechLimit == settings.speech_rate_limit

Routes == {"chat", "speech"}

\* The limiter's check of one request: the hit is counted in the window of
\* the route, then the count is compared with the limit of the route
Hit(route) == [hits EXCEPT ![route] = @ + 1]
OverLimit(route, limit) == hits[route] + 1 > limit

----------------------------------------------------------------------------
(* State after construction *)

Unset == [op |-> "unset"]

Init ==
    /\ settings \in SettingsValues
    /\ loaded = {}
    /\ hits = [k \in Routes |-> 0]
    /\ loop = 0
    /\ pc = [r \in Req |-> "idle"]
    /\ req = [r \in Req |-> NoReq]
    /\ loc = [r \in Req |-> NoLoc]
    /\ calls = [r \in Req |-> <<>>]
    /\ resp = [r \in Req |-> NoResp]
    /\ storage = {}

\* A collaborator call as the request's log keeps it: ok is FALSE when it raised
Call(fn, arg, ok) == [fn |-> fn, arg |-> arg, ok |-> ok]

\* The client gets the response: the request slot is free again
Retire(r) ==
    /\ pc[r] = "done"
    /\ pc' = [pc EXCEPT ![r] = "idle"]
    /\ req' = [req EXCEPT ![r] = NoReq]
    /\ loc' = [loc EXCEPT ![r] = NoLoc]
    /\ calls' = [calls EXCEPT ![r] = <<>>]
    /\ resp' = [resp EXCEPT ![r] = NoResp]
    /\ UNCHANGED <<settings, loaded, hits, loop, storage>>

\* The window of a route ends: its count starts again
WindowExpire(route) ==
    /\ hits[route] > 0
    /\ hits' = [hits EXCEPT ![route] = 0]
    /\ UNCHANGED <<settings, loaded, loop, pc, req, loc, calls, resp, storage>>

----------------------------------------------------------------------------
(* POST /chat *)

\* chat: except Exception as e -> HTTPException(500)
ChatExceptMut(l, e) ==
    Response(200, [op |-> "ChatResponse",
                   response |-> IF l.response = Unset THEN l.translated_prompt ELSE l.response])
ChatExcept(l, e) == HTTPException(500, "An error occurred", e)

\* chat: return ChatResponse(response=translated_response)
ChatReturnMut(l) == Response(200, [op |-> "ChatResponse", response |-> l.response])
ChatReturn(l) == Response(200, [op |-> "ChatResponse", response |-> l.translated_response])

\* A client posts a prompt to /chat
ChatArrive(r, prompt) ==
    /\ pc[r] = "idle"
    /\ pc' = [pc EXCEPT ![r] = "received"]
    /\ req' = [req EXCEPT ![r] = [route |-> "chat", prompt |-> prompt]]
    /\ UNCHANGED <<settings, loaded, hits, loop, loc, calls, resp, storage>>

\* FastAPI builds the ChatRequest: the validator rejects or trims the prompt
ChatValidate(r) ==
    /\ pc[r] = "received"
    /\ req[r].route = "chat"
    /\ loop = 0
    /\ IF PromptTooLong(req[r].prompt)
       THEN /\ pc' = [pc EXCEPT ![r] = "done"]
            /\ resp' = [resp EXCEPT ![r] = RequestValidationError("prompt")]
            /\ loc' = loc
       ELSE /\ pc' = [pc EXCEPT ![r] = "limit"]
            /\ resp' = resp
            /\ loc' = [loc EXCEPT ![r] =
                        [route |-> "chat",
                         prompt |-> prompt_must_be_valid(req[r].prompt),
                         translated_prompt |-> Unset,
                         response |-> Unset,
                         translated_response |-> Unset]]
    /\ UNCHANGED <<settings, loaded, hits, loop, req, calls, storage>>

\* The limiter's wrapper runs, then the body of chat up to its try block
ChatEnter(r) ==
    /\ pc[r] = "limit"
    /\ loc[r].route = "chat"
    /\ loop = 0
    /\ hits["chat"] <= MaxLimit
    /\ hits' = Hit("chat")
    /\ IF OverLimit("chat", ChatLimit)
       THEN /\ pc' = [pc EXCEPT ![r] = "done"]
            /\ resp' = [resp EXCEPT ![r] = RateLimitExceeded("chat")]
            /\ loop' = 0
       ELSE IF loc[r].prompt = <<>>
       THEN /\ pc' = [pc EXCEPT ![r] = "done"]
            /\ resp' = [resp EXCEPT ![r] =
                          HTTPException(400, "Prompt cannot be empty", Exc("prompt"))]
            /\ loop' = 0
       ELSE /\ pc' = [pc EXCEPT ![r] = "translate_in"]
            /\ resp' = resp
            /\ loop' = r
    /\ UNCHANGED <<settings, loaded, req, loc, calls, storage>>

\* The statement the try block of chat runs after a stage that returned
StageAfterMut(stage) == IF stage = "translate_in" THEN "translate_back" ELSE "done"

StageAfter(stage) ==
    CASE stage = "translate_in" -> "generate"
      [] stage = "generate" -> "translate_back"
      [] OTHER -> "done"

\* translated_prompt = trans_to_en.translate(chat_request.prompt)
ChatTranslateIn(r) ==
    /\ pc[r] = "translate_in"
    /\ loop = r
    /\ \E ok \in BOOLEAN :
        LET out == trans_to_en(loc[r].prompt) IN
        /\ calls' = [calls EXCEPT ![r] = Append(@, Call("trans_to_en.translate", loc[r].prompt, ok))]
        /\ pc' = [pc EXCEPT ![r] = IF ok THEN StageAfter("translate_in") ELSE "done"]
        /\ loc' = IF ok THEN [loc EXCEPT ![r].translated_prompt = out]
                  ELSE loc
        /\ resp' = IF ok THEN resp
                   ELSE [resp EXCEPT ![r] = ChatExcept(loc[r], Exc("trans_to_en.translate"))]
        /\ loop' = IF ok THEN r ELSE 0
    /\ UNCHANGED <<settings, loaded, hits, req, storage>>

\* response = llm_manager.generate(translated_prompt, settings.max_tokens)
ChatGenerate(r) ==
    /\ pc[r] = "generate"
    /\ loop = r
    /\ \E ok \in BOOLEAN :
        LET out == Generate(loc[r].translated_prompt, settings.max_tokens) IN
        /\ calls' = [calls EXCEPT ![r] =
                       Append(@, Call("llm_manager.generate", loc[r].translated_prompt, ok))]
        /\ pc' = [pc EXCEPT ![r] = IF ok THEN StageAfter("generate") ELSE "done"]
        /\ loc' = IF ok THEN [loc EXCEPT ![r].response = out]
                  ELSE loc
        /\ resp' = IF ok THEN resp
                   ELSE [resp EXCEPT ![r] = ChatExcept(loc[r], Exc("llm_manager.generate"))]
        /\ loop' = IF ok THEN r ELSE 0
    /\ UNCHANGED <<settings, loaded, hits, req, storage>>

\* translated_response = trans_to_kn.translate(response), then the return
ChatTranslateBack(r) ==
    /\ pc[r] = "translate_back"
    /\ loop = r
    /\ \E ok \in BOOLEAN :
        LET out == trans_to_kn(loc[r].response)
            l == [loc[r] EXCEPT !.translated_response = out]
        IN
        /\ calls' = [calls EXCEPT ![r] = Append(@, Call("trans_to_kn.translate", loc[r].response, ok))]
        /\ pc' = [pc EXCEPT ![r] = "done"]
        /\ loc' = IF ok THEN [loc EXCEPT ![r] = l] ELSE loc
        /\ resp' = [resp EXCEPT ![r] =
                      IF ok THEN ChatReturn(l)
                      ELSE ChatExcept(loc[r], Exc("trans_to_kn.translate"))]
        /\ loop' = 0
    /\ UNCHANGED <<settings, loaded, hits, req, storage>>

\* Prompts the clients send
Prompts ==
    { <<>>, <<Run(" ", 2)>>, <<Run("a", 1)>>,
      <<Run(" ", 1), Run("b", 1), Run(" ", 1)>>,
      <<Run("a", MaxPromptLen)>>, <<Run("a", MaxPromptLen + 1)>>,
      <<Run(" ", 1), Run("a", MaxPromptLen - 1)>>,
      <<Run(" ", 1), Run("a", MaxPromptLen)>>,
      <<Run(" ", MaxPromptLen)>> }

InitChat ==
    /\ Init
    /\ settings.chat_rate_limit = MaxLimit
    /\ settings.speech_rate_limit = MaxLimit

NextChat ==
    \E r \in Req :
        \/ \E p \in Prompts : ChatArrive(r, p)
        \/ ChatValidate(r)
        \/ ChatEnter(r)
        \/ ChatTranslateIn(r)
        \/ ChatGenerate(r)
        \/ ChatTranslateBack(r)
        \/ Retire(r)
        \/ WindowExpire("chat")

SpecChat == InitChat /\ [][NextChat]_vars

----------------------------------------------------------------------------
(* POST /v1/audio/speech *)

\* SpeechRequest.input_must_be_valid: TRUE when the validator raises ValueError
InputTooLong(v) == TextLen(v) > MaxPromptLen

\* SpeechRequest.validate_response_format: supported_formats
supported_formats == {"mp3", "flac", "wav"}

\* tts_manager.generate_audio(input, voice, model, speed)
SynthesizeSpeech(text) == [op |-> "synthesize", text |-> text]

\* generate_audio: except Exception as e -> HTTPException(500)
SpeechExcept(e) == HTTPException(500, "Audio generation failed", e)

\* generate_audio: return StreamingResponse(audio_buffer, media_type=audio/<format>)
SpeechReturn(l) ==
    Response(200, [op |-> "StreamingResponse", media_type |-> l.response_format,
                   audio |-> l.audio_arr])

\* A client posts a speech request
SpeechArrive(r, input, format) ==
    /\ pc[r] = "idle"
    /\ pc' = [pc EXCEPT ![r] = "received"]
    /\ req' = [req EXCEPT ![r] =
                 [route |-> "speech", input |-> input, response_format |-> format]]
    /\ UNCHANGED <<settings, loaded, hits, loop, loc, calls, resp, storage>>

\* FastAPI builds the SpeechRequest: both validators run
SpeechValidate(r) ==
    /\ pc[r] = "received"
    /\ req[r].route = "speech"
    /\ loop = 0
    /\ IF InputTooLong(req[r].input)
       THEN /\ pc' = [pc EXCEPT ![r] = "done"]
            /\ resp' = [resp EXCEPT ![r] = RequestValidationError("input")]
            /\ loc' = loc
       ELSE IF req[r].response_format \notin supported_formats
       THEN /\ pc' = [pc EXCEPT ![r] = "done"]
            /\ resp' = [resp EXCEPT ![r] = RequestValidationError("response_format")]
            /\ loc' = loc
       ELSE /\ pc' = [pc EXCEPT ![r] = "limit"]
            /\ resp' = resp
            /\ loc' = [loc EXCEPT ![r] =
                        [route |-> "speech",
                         input |-> Strip(req[r].input),
                         response_format |-> req[r].response_format,
                         audio_arr |-> Unset]]
    /\ UNCHANGED <<settings, loaded, hits, loop, req, calls, storage>>

\* The limiter's wrapper runs, then the body of generate_audio up to its try block
SpeechEnter(r) ==
    /\ pc[r] = "limit"
    /\ loc[r].route = "speech"
    /\ loop = 0
    /\ hits["speech"] <= MaxLimit
    /\ hits' = Hit("speech")
    /\ IF OverLimit("speech", SpeechLimit)
       THEN /\ pc' = [pc EXCEPT ![r] = "done"]
            /\ resp' = [resp EXCEPT ![r] = RateLimitExceeded("speech")]
            /\ loop' = 0
       ELSE IF Strip(loc[r].input) = <<>>
       THEN /\ pc' = [pc EXCEPT ![r] = "done"]
            /\ resp' = [resp EXCEPT ![r] =
                          HTTPException(400, "Input cannot be empty", Exc("input"))]
            /\ loop' = 0
       ELSE /\ pc' = [pc EXCEPT ![r] = "synthesize"]
            /\ resp' = resp
            /\ loop' = r
    /\ UNCHANGED <<settings, loaded, req, loc, calls, storage>>

\* audio_arr = tts_manager.generate_audio(...)
SpeechSynthesize(r) ==
    /\ pc[r] = "synthesize"
    /\ loop = r
    /\ \E ok \in BOOLEAN :
        /\ calls' = [calls EXCEPT ![r] =
                       Append(@, Call("tts_manager.generate_audio", loc[r].input, ok))]
        /\ pc' = [pc EXCEPT ![r] = IF ok THEN "write" ELSE "done"]
        /\ loc' = IF ok THEN [loc EXCEPT ![r].audio_arr = SynthesizeSpeech(loc[r].input)]
                  ELSE loc
        /\ resp' = IF ok THEN resp
                   ELSE [resp EXCEPT ![r] = SpeechExcept(Exc("tts_manager.generate_audio"))]
        /\ loop' = IF ok THEN r ELSE 0
    /\ UNCHANGED <<settings, loaded, hits, req, storage>>

\* sf.write(audio_buffer, audio_arr, 24000, format=...), then the return
SpeechWrite(r) ==
    /\ pc[r] = "write"
    /\ loop = r
    /\ \E ok \in BOOLEAN :
        /\ pc' = [pc EXCEPT ![r] = "done"]
        /\ resp' = [resp EXCEPT ![r] =
                      IF ok THEN SpeechReturn(loc[r]) ELSE SpeechExcept(Exc("sf.write"))]
        /\ loop' = 0
    /\ UNCHANGED <<settings, loaded, hits, req, loc, calls, storage>>

\* The requests the rate-limit runs send
RatePrompts == { <<Run("a", 1)>> }
RateInputs == { <<Run("h", 1), Run("i", 1)>> }
RateFormats == { "mp3", "aac" }

NextRate ==
    \E r \in Req :
        \/ \E p \in RatePrompts : ChatArrive(r, p)
        \/ ChatValidate(r)
        \/ ChatEnter(r)
        \/ ChatTranslateIn(r)
        \/ ChatGenerate(r)
        \/ ChatTranslateBack(r)
        \/ \E i \in RateInputs, f \in RateFormats : SpeechArrive(r, i, f)
        \/ SpeechValidate(r)
        \/ SpeechEnter(r)
        \/ SpeechSynthesize(r)
        \/ SpeechWrite(r)
        \/ Retire(r)
        \/ \E route \in Routes : WindowExpire(route)

SpecRate == Init /\ [][NextRate]_vars

----------------------------------------------------------------------------
(* Audio uploads, the normalizer and the speech-recognition manager *)

\* The names the import block of main.py binds at module level
ModuleNames ==
    {"io", "sf", "tempfile", "time", "argparse", "uvicorn", "Image", "List",
     "AudioSegment", "logger"}

\* A name the handler reads resolves, or the read raises NameError
NameDefined(name) == name \in ModuleNames

\* str.lower() on the characters file names are written with
LowerChar(c) ==
    CASE c = "W" -> "w" [] c = "A" -> "a" [] c = "V" -> "v"
      [] c = "M" -> "m" [] c = "P" -> "p" [] c = "O" -> "o" [] c = "G" -> "g"
      [] OTHER -> c

Lower(v) == [i \in 1..Len(v) |-> LowerChar(v[i])]

\* filename.split(".")[-1]: what follows the last dot, the whole name without one
LastPart(name) ==
    LET dots == {i \in 1..Len(name) : name[i] = "."}
        last == IF dots = {} THEN 0 ELSE CHOOSE i \in dots : \A j \in dots : j <= i
    IN  SubSeq(name, last + 1, Len(name))

\* file_extension = file.filename.split(".")[-1].lower()
FileExtension(name) == Lower(LastPart(name))

\* file_extension not in ["wav", "mp3"]
Unsupported(ext) == ext \notin {<<"w", "a", "v">>, <<"m", "p", "3">>}

\* AudioSegment.from_mp3 / AudioSegment.from_wav, chosen by the extension
Decoder(ext) == IF ext = <<"m", "p", "3">> THEN "AudioSegment.from_mp3" ELSE "AudioSegment.from_wav"

\* The decoded audio of an upload
Decode(file) ==
    [content |-> file.content, frame_rate |-> file.frame_rate,
     channels |-> file.channels, duration |-> file.duration]

\* if audio.frame_rate != 16000: audio = audio.set_frame_rate(16000).set_channels(1)
Normalize(audio) ==
    IF audio.frame_rate # 16000
    THEN [audio EXCEPT !.frame_rate = 16000, !.channels = 1]
    ELSE audio

\* A temporary file: the request and upload it was made for, and which chunk (0: the canonical file)
Path(r, i, kind, idx) == [owner |-> r, file |-> i, kind |-> kind, idx |-> idx]

\* asr_manager: the longest chunk split_audio cuts, in seconds
ChunkDuration == 2

\* asr_manager.split_audio: the number of chunks of an audio of the given duration
ChunkCount(duration) == (duration + ChunkDuration - 1) \div ChunkDuration

\* asr_manager.split_audio(tmp_file_path): the chunk files, in temporal order
split_audio(r, i, audio) == [k \in 1..ChunkCount(audio.duration) |-> Path(r, i, "chunk", k)]

\* asr_manager.model_language and asr_manager.default_language
model_language == [kn |-> "kn", hi |-> "hi"]
default_language == "kn"

\* asr_manager.model_language.get(language, asr_manager.default_language)
LanguageIdMut(language) ==
    IF language \in DOMAIN model_language THEN model_language[language] ELSE language

LanguageId(language) ==
    IF language \in DOMAIN model_language THEN model_language[language] ELSE default_language

\* The recognition of one chunk
Recognize(audio, idx, language_id) ==
    [op |-> "recognize", content |-> audio.content, chunk |-> idx, language_id |-> language_id]

\* asr_manager.transcribe(chunk_file_paths, language_id): the fragments of the first n chunks, in order
transcribe(audio, n, language_id) == [k \in 1..n |-> Recognize(audio, k, language_id)]

\* The recognition calls asr_manager.transcribe makes when chunk failAt fails (0: none fails)
RecognizeCalls(i, n, failAt) ==
    [k \in 1..(IF failAt = 0 THEN n ELSE failAt) |->
        Call("asr.recognize", [file |-> i, chunk |-> k], k # failAt)]

\* The temporary files the finally block removes
Removed(l) == {l.chunk_file_paths[k] : k \in 1..Len(l.chunk_file_paths)} \cup {l.tmp_file_path}

\* The request has no temporary file on disk
NoFilesOf(r) == \A f \in storage : f.owner # r

----------------------------------------------------------------------------
(* POST /transcribe/ *)

\* transcribe_audio: except Exception as e -> HTTPException(500)
TranscribeExceptMut(e) == Response(200, [op |-> "JSONResponse", text |-> <<>>])
TranscribeExcept(e) == HTTPException(500, "Transcription failed", e)

\* transcribe_audio: return JSONResponse(content={"text": transcription})
TranscribeReturn(l) == Response(200, [op |-> "JSONResponse", text |-> l.transcription])

\* A client posts one upload and a language code
TranscribeArrive(r, file, language) ==
    /\ pc[r] = "idle"
    /\ NoFilesOf(r)
    /\ pc' = [pc EXCEPT ![r] = "received"]
    /\ req' = [req EXCEPT ![r] = [route |-> "transcribe", file |-> file, language |-> language]]
    /\ UNCHANGED <<settings, loaded, hits, loop, loc, calls, resp, storage>>

\* The handler starts: the extension is checked, then it awaits file.read()
TranscribeBegin(r) ==
    /\ pc[r] = "received"
    /\ req[r].route = "transcribe"
    /\ loop = 0
    /\ LET ext == FileExtension(req[r].file.filename)
           e == HTTPException(400, "Unsupported file format", Exc("file_extension"))
           l == [route |-> "transcribe", file_extension |-> ext, audio |-> Unset,
                 tmp_file_path |-> Unset, chunk_file_paths |-> <<>>,
                 transcription |-> Unset, e |-> Unset]
       IN  IF Unsupported(ext)
           THEN /\ pc' = [pc EXCEPT ![r] = "done"]
                /\ loc' = [loc EXCEPT ![r] = [l EXCEPT !.e = e]]
                /\ resp' = [resp EXCEPT ![r] = TranscribeExcept(e)]
           ELSE /\ pc' = [pc EXCEPT ![r] = "read"]
                /\ loc' = [loc EXCEPT ![r] = l]
                /\ resp' = resp
    /\ UNCHANGED <<settings, loaded, hits, loop, req, calls, storage>>

\* file.read() returns: the content is decoded and brought to 16 kHz
TranscribeDecode(r) ==
    /\ pc[r] = "read"
    /\ loc[r].route = "transcribe"
    /\ loop = 0
    /\ LET file == req[r].file
           ok == file.decodes
           fn == Decoder(loc[r].file_extension)
           e == Exc(fn)
       IN  /\ calls' = [calls EXCEPT ![r] = Append(@, Call(fn, [file |-> 1], ok))]
           /\ pc' = [pc EXCEPT ![r] = IF ok THEN "export" ELSE "done"]
           /\ loc' = [loc EXCEPT ![r] =
                        IF ok THEN [@ EXCEPT !.audio = Normalize(Decode(file))]
                        ELSE [@ EXCEPT !.e = e]]
           /\ resp' = IF ok THEN resp ELSE [resp EXCEPT ![r] = TranscribeExcept(e)]
           /\ loop' = IF ok THEN r ELSE 0
    /\ UNCHANGED <<settings, loaded, hits, req, storage>>

\* tempfile.NamedTemporaryFile(delete=False) makes the canonical file, audio.export fills it
TranscribeExport(r) ==
    /\ pc[r] = "export"
    /\ loc[r].route = "transcribe"
    /\ loop = r
    /\ \E ok \in BOOLEAN :
        LET tmp == Path(r, 1, "tmp", 0)
            e == Exc("audio.export")
        IN  /\ storage' = storage \cup {tmp}
            /\ calls' = [calls EXCEPT ![r] = Append(@, Call("audio.export", [file |-> 1], ok))]
            /\ pc' = [pc EXCEPT ![r] = IF ok THEN "split" ELSE "done"]
            /\ loc' = [loc EXCEPT ![r] =
                         IF ok THEN [@ EXCEPT !.tmp_file_path = tmp]
                         ELSE [@ EXCEPT !.e = e]]
            /\ resp' = IF ok THEN resp ELSE [resp EXCEPT ![r] = TranscribeExcept(e)]
            /\ loop' = IF ok THEN r ELSE 0
    /\ UNCHANGED <<settings, loaded, hits, req>>

\* chunk_file_paths = asr_manager.split_audio(tmp_file_path)
TranscribeSplit(r) ==
    /\ pc[r] = "split"
    /\ loc[r].route = "transcribe"
    /\ loop = r
    /\ \E ok \in BOOLEAN :
        LET chunks == split_audio(r, 1, loc[r].audio)
            e == Exc("asr_manager.split_audio")
        IN  /\ storage' = IF ok THEN storage \cup {chunks[k] : k \in 1..Len(chunks)}
                          ELSE storage
            /\ calls' = [calls EXCEPT ![r] =
                           Append(@, Call("asr_manager.split_audio", [file |-> 1], ok))]
            /\ pc' = [pc EXCEPT ![r] = IF ok THEN "transcribe" ELSE "done"]
            /\ loc' = [loc EXCEPT ![r] =
                         IF ok THEN [@ EXCEPT !.chunk_file_paths = chunks]
                         ELSE [@ EXCEPT !.e = e]]
            /\ resp' = IF ok THEN resp ELSE [resp EXCEPT ![r] = TranscribeExcept(e)]
            /\ loop' = IF ok THEN r ELSE 0
    /\ UNCHANGED <<settings, loaded, hits, req>>

\* The inner try: the language is resolved and asr_manager.transcribe runs over the chunks
TranscribeRecognize(r) ==
    /\ pc[r] = "transcribe"
    /\ loc[r].route = "transcribe"
    /\ loop = r
    /\ LET n == Len(loc[r].chunk_file_paths)
           language_id == LanguageId(req[r].language)
       IN  \E failAt \in 0..n :
            /\ calls' = [calls EXCEPT ![r] = @ \o RecognizeCalls(1, n, failAt)]
            /\ loc' = [loc EXCEPT ![r] =
                         IF failAt = 0
                         THEN [@ EXCEPT !.transcription = transcribe(loc[r].audio, n, language_id)]
                         ELSE [@ EXCEPT !.e = Exc("asr_manager.transcribe")]]
            /\ pc' = [pc EXCEPT ![r] = "finally"]
    /\ UNCHANGED <<settings, loaded, hits, loop, req, resp, storage>>

\* The finally block, then the return or the outer except
TranscribeFinally(r) ==
    /\ pc[r] = "finally"
    /\ loc[r].route = "transcribe"
    /\ loop = r
    /\ IF NameDefined("os")
       THEN /\ storage' = storage \ Removed(loc[r])
            /\ calls' = [calls EXCEPT ![r] = Append(@, Call("asr_manager.cleanup", [file |-> 1], TRUE))]
            /\ loc' = loc
            /\ resp' = [resp EXCEPT ![r] =
                          IF loc[r].e = Unset THEN TranscribeReturn(loc[r])
                          ELSE TranscribeExcept(loc[r].e)]
       ELSE /\ storage' = storage
            /\ calls' = calls
            /\ loc' = [loc EXCEPT ![r].e = Exc("NameError: name 'os' is not defined")]
            /\ resp' = [resp EXCEPT ![r] =
                          TranscribeExcept(Exc("NameError: name 'os' is not defined"))]
    /\ pc' = [pc EXCEPT ![r] = "done"]
    /\ loop' = 0
    /\ UNCHANGED <<settings, loaded, hits, req>>

----------------------------------------------------------------------------
(* POST /transcribe_batch/ *)

\* transcribe_audio_batch: except Exception as e -> HTTPException(500)
BatchExceptMut(l, e) ==
    Response(200, [op |-> "JSONResponse", transcriptions |-> l.all_transcriptions])
BatchExcept(l, e) == HTTPException(500, "Batch transcription failed", e)

\* transcribe_audio_batch: return JSONResponse(content={"transcriptions": all_transcriptions})
BatchReturn(l) == Response(200, [op |-> "JSONResponse", transcriptions |-> l.all_transcriptions])

\* for file in files: the loop goes on to the next upload
NextFileMut(l, e) == TRUE

NextFile(l, e) == e = Unset

\* A client posts a list of uploads and one language code
BatchArrive(r, files, language) ==
    /\ pc[r] = "idle"
    /\ NoFilesOf(r)
    /\ pc' = [pc EXCEPT ![r] = "received"]
    /\ req' = [req EXCEPT ![r] = [route |-> "batch", files |-> files, language |-> language]]
    /\ UNCHANGED <<settings, loaded, hits, loop, loc, calls, resp, storage>>

\* The handler starts: all_transcriptions = [] and the loop over the uploads begins
BatchBegin(r) ==
    /\ pc[r] = "received"
    /\ req[r].route = "batch"
    /\ loop = 0
    /\ pc' = [pc EXCEPT ![r] = "head"]
    /\ loc' = [loc EXCEPT ![r] =
                 [route |-> "batch", i |-> 1, all_transcriptions |-> <<>>,
                  file_extension |-> Unset, audio |-> Unset, tmp_file_path |-> Unset,
                  chunk_file_paths |-> <<>>, e |-> Unset]]
    /\ loop' = r
    /\ UNCHANGED <<settings, loaded, hits, req, calls, resp, storage>>

\* The head of the loop: the list is returned after the last upload; else the
\* extension of the next upload is checked and the handler awaits file.read()
BatchHead(r) ==
    /\ pc[r] = "head"
    /\ loop = r
    /\ LET i == loc[r].i
           e == HTTPException(400, "Unsupported file format", Exc("file_extension"))
       IN  IF i > Len(req[r].files)
           THEN /\ pc' = [pc EXCEPT ![r] = "done"]
                /\ loc' = loc
                /\ resp' = [resp EXCEPT ![r] = BatchReturn(loc[r])]
           ELSE LET ext == FileExtension(req[r].files[i].filename) IN
                IF Unsupported(ext)
                THEN /\ pc' = [pc EXCEPT ![r] = "done"]
                     /\ loc' = [loc EXCEPT ![r].file_extension = ext, ![r].e = e]
                     /\ resp' = [resp EXCEPT ![r] = BatchExcept(loc[r], e)]
                ELSE /\ pc' = [pc EXCEPT ![r] = "read"]
                     /\ loc' = [loc EXCEPT ![r].file_extension = ext]
                     /\ resp' = resp
    /\ loop' = 0
    /\ UNCHANGED <<settings, loaded, hits, req, calls, storage>>

\* file.read() returns: the content is decoded and brought to 16 kHz
BatchDecode(r) ==
    /\ pc[r] = "read"
    /\ loc[r].route = "batch"
    /\ loop = 0
    /\ LET i == loc[r].i
           file == req[r].files[i]
           ok == file.decodes
           fn == Decoder(loc[r].file_extension)
           e == Exc(fn)
       IN  /\ calls' = [calls EXCEPT ![r] = Append(@, Call(fn, [file |-> i], ok))]
           /\ pc' = [pc EXCEPT ![r] = IF ok THEN "export" ELSE "done"]
           /\ loc' = [loc EXCEPT ![r] =
                        IF ok THEN [@ EXCEPT !.audio = Normalize(Decode(file))]
                        ELSE [@ EXCEPT !.e = e]]
           /\ resp' = IF ok THEN resp ELSE [resp EXCEPT ![r] = BatchExcept(loc[r], e)]
           /\ loop' = IF ok THEN r ELSE 0
    /\ UNCHANGED <<settings, loaded, hits, req, storage>>

\* tempfile.NamedTemporaryFile(delete=False) makes the canonical file, audio.export fills it
BatchExport(r) ==
    /\ pc[r] = "export"
    /\ loc[r].route = "batch"
    /\ loop = r
    /\ \E ok \in BOOLEAN :
        LET i == loc[r].i
            tmp == Path(r, i, "tmp", 0)
            e == Exc("audio.export")
        IN  /\ storage' = storage \cup {tmp}
            /\ calls' = [calls EXCEPT ![r] = Append(@, Call("audio.export", [file |-> i], ok))]
            /\ pc' = [pc EXCEPT ![r] = IF ok THEN "split" ELSE "done"]
            /\ loc' = [loc EXCEPT ![r] =
                         IF ok THEN [@ EXCEPT !.tmp_file_path = tmp]
                         ELSE [@ EXCEPT !.e = e]]
            /\ resp' = IF ok THEN resp ELSE [resp EXCEPT ![r] = BatchExcept(loc[r], e)]
            /\ loop' = IF ok THEN r ELSE 0
    /\ UNCHANGED <<settings, loaded, hits, req>>

\* chunk_file_paths = asr_manager.split_audio(tmp_file_path)
BatchSplit(r) ==
    /\ pc[r] = "split"
    /\ loc[r].route = "batch"
    /\ loop = r
    /\ \E ok \in BOOLEAN :
        LET i == loc[r].i
            chunks == split_audio(r, i, loc[r].audio)
            e == Exc("asr_manager.split_audio")
        IN  /\ storage' = IF ok THEN storage \cup {chunks[k] : k \in 1..Len(chunks)}
                          ELSE storage
            /\ calls' = [calls EXCEPT ![r] =
                           Append(@, Call("asr_manager.split_audio", [file |-> i], ok))]
            /\ pc' = [pc EXCEPT ![r] = IF ok THEN "transcribe" ELSE "done"]
            /\ loc' = [loc EXCEPT ![r] =
                         IF ok THEN [@ EXCEPT !.chunk_file_paths = chunks]
                         ELSE [@ EXCEPT !.e = e]]
            /\ resp' = IF ok THEN resp ELSE [resp EXCEPT ![r] = BatchExcept(loc[r], e)]
            /\ loop' = IF ok THEN r ELSE 0
    /\ UNCHANGED <<settings, loaded, hits, req>>

\* The inner try: asr_manager.transcribe runs and its text is appended to all_transcriptions
BatchRecognize(r) ==
    /\ pc[r] = "transcribe"
    /\ loc[r].route = "batch"
    /\ loop = r
    /\ LET i == loc[r].i
           n == Len(loc[r].chunk_file_paths)
           language_id == LanguageId(req[r].language)
       IN  \E failAt \in 0..n :
            /\ calls' = [calls EXCEPT ![r] = @ \o RecognizeCalls(i, n, failAt)]
            /\ loc' = [loc EXCEPT ![r] =
                         IF failAt = 0
                         THEN [@ EXCEPT !.all_transcriptions =
                                  Append(@, transcribe(loc[r].audio, n, language_id))]
                         ELSE [@ EXCEPT !.e = Exc("asr_manager.transcribe")]]
            /\ pc' = [pc EXCEPT ![r] = "finally"]
    /\ UNCHANGED <<settings, loaded, hits, loop, req, resp, storage>>

\* The finally block, then the next turn of the loop or the outer except
BatchFinally(r) ==
    /\ pc[r] = "finally"
    /\ loc[r].route = "batch"
    /\ loop = r
    /\ LET i == loc[r].i
           e == IF NameDefined("os") THEN loc[r].e
                ELSE Exc("NameError: name 'os' is not defined")
       IN  /\ storage' = IF NameDefined("os") THEN storage \ Removed(loc[r]) ELSE storage
           /\ calls' = IF NameDefined("os")
                       THEN [calls EXCEPT ![r] =
                               Append(@, Call("asr_manager.cleanup", [file |-> i], TRUE))]
                       ELSE calls
           /\ IF NextFile(loc[r], e)
              THEN /\ pc' = [pc EXCEPT ![r] = "head"]
                   /\ loc' = [loc EXCEPT ![r].i = i + 1, ![r].e = e]
                   /\ resp' = resp
                   /\ loop' = r
              ELSE /\ pc' = [pc EXCEPT ![r] = "done"]
                   /\ loc' = [loc EXCEPT ![r].e = e]
                   /\ resp' = [resp EXCEPT ![r] = BatchExcept(loc[r], e)]
                   /\ loop' = 0
    /\ UNCHANGED <<settings, loaded, hits, req>>

----------------------------------------------------------------------------
(* The uploads the clients send *)

Upload(name, content, decodes, rate, channels, duration) ==
    [filename |-> name, content |-> content, decodes |-> decodes,
     frame_rate |-> rate, channels |-> channels, duration |-> duration]

Uploads ==
    { Upload(<<"a", ".", "w", "a", "v">>, "A", TRUE, 16000, 1, 1),
      Upload(<<"b", ".", "M", "P", "3">>, "B", TRUE, 44100, 2, MaxDuration),
      Upload(<<"c", ".", "o", "g", "g">>, "C", TRUE, 16000, 1, 1),
      Upload(<<"d", ".", "w", "a", "v">>, "D", FALSE, 16000, 1, 1),
      Upload(<<"e", ".", "w", "a", "v">>, "E", TRUE, 16000, 2, 2),
      Upload(<<"f", ".", "w", "a", "v", ".", "o", "g", "g">>, "F", TRUE, 8000, 1, 1) }

Languages == {"hi", "xx"}

\* TRUE for an upload the handlers take through the whole pipeline
Sound(file) == ~Unsupported(FileExtension(file.filename)) /\ file.decodes

\* The uploads of batch requests: a sound one, an unsupported one, a corrupt one
BatchUploads == {f \in Uploads : f.content \in {"B", "C", "D"}}

RECURSIVE SeqsUpTo(_, _)
SeqsUpTo(S, n) ==
    IF n = 0 THEN {<<>>}
    ELSE LET shorter == SeqsUpTo(S, n - 1)
         IN  shorter \cup {Append(q, x) : q \in shorter, x \in S}

\* Batches of one to MaxBatch uploads, at most one of them not sound
Batches ==
    {b \in SeqsUpTo(BatchUploads, MaxBatch) :
        /\ b # <<>>
        /\ Cardinality({i \in 1..Len(b) : ~Sound(b[i])}) <= 1}

InitAudio ==
    /\ Init
    /\ settings.chat_rate_limit = MaxLimit
    /\ settings.speech_rate_limit = MaxLimit

NextTranscribe ==
    \E r \in Req :
        \/ \E f \in Uploads, l \in Languages : TranscribeArrive(r, f, l)
        \/ TranscribeBegin(r)
        \/ TranscribeDecode(r)
        \/ TranscribeExport(r)
        \/ TranscribeSplit(r)
        \/ TranscribeRecognize(r)
        \/ TranscribeFinally(r)
        \/ Retire(r)

SpecTranscribe == InitAudio /\ [][NextTranscribe]_vars

NextBatch ==
    \E r \in Req :
        \/ \E fs \in Batches : BatchArrive(r, fs, "hi")
        \/ BatchBegin(r)
        \/ BatchHead(r)
        \/ BatchDecode(r)
        \/ BatchExport(r)
        \/ BatchSplit(r)
        \/ BatchRecognize(r)
        \/ BatchFinally(r)
        \/ Retire(r)

SpecBatch == InitAudio /\ [][NextBatch]_vars

NextAudio == NextTranscribe \/ NextBatch

SpecAudio == InitAudio /\ [][NextAudio]_vars

----------------------------------------------------------------------------
(* POST /load_all_models *)

\* The managers load_all_models loads, in the order of its statements
LoadOrderMut ==
    <<"llm_manager", "trans_to_en", "trans_to_kn", "vlm_manager", "tts_manager",
      "asr_manager">>

LoadOrder ==
    <<"llm_manager", "trans_to_en", "trans_to_kn", "tts_manager", "vlm_manager",
      "asr_manager">>

\* load_all_models: return {"status": "success", "message": "All models loaded"}
LoadReturn == Response(200, [op |-> "dict", status |-> "success"])

\* load_all_models: except Exception as e: raise HTTPException(status_code=500, ...)
LoadExcept(e) == HTTPException(500, "Failed to load models", e)

\* A client posts to /load_all_models
LoadArrive(r) ==
    /\ pc[r] = "idle"
    /\ pc' = [pc EXCEPT ![r] = "received"]
    /\ req' = [req EXCEPT ![r] = [route |-> "load"]]
    /\ UNCHANGED <<settings, loaded, hits, loop, loc, calls, resp, storage>>

\* The handler starts and enters its try block
LoadBegin(r) ==
    /\ pc[r] = "received"
    /\ req[r].route = "load"
    /\ loop = 0
    /\ pc' = [pc EXCEPT ![r] = "load"]
    /\ loc' = [loc EXCEPT ![r] = [route |-> "load", j |-> 1]]
    /\ loop' = r
    /\ UNCHANGED <<settings, loaded, hits, req, calls, resp, storage>>

\* The next load statement of the try block runs: it returns or it raises
LoadStep(r) ==
    /\ pc[r] = "load"
    /\ loc[r].route = "load"
    /\ loop = r
    /\ \E ok \in BOOLEAN :
        LET j == loc[r].j
            manager == LoadOrder[j]
            last == j = Len(LoadOrder)
        IN  /\ calls' = [calls EXCEPT ![r] = Append(@, Call("load", [manager |-> manager], ok))]
            /\ loaded' = IF ok THEN loaded \cup {manager} ELSE loaded
            /\ pc' = [pc EXCEPT ![r] = IF ok /\ ~last THEN "load" ELSE "done"]
            /\ loc' = IF ok /\ ~last THEN [loc EXCEPT ![r].j = j + 1] ELSE loc
            /\ resp' = IF ~ok THEN [resp EXCEPT ![r] = LoadExcept(Exc(manager))]
                       ELSE IF last THEN [resp EXCEPT ![r] = LoadReturn]
                       ELSE resp
            /\ loop' = IF ok /\ ~last THEN r ELSE 0
    /\ UNCHANGED <<settings, hits, req, storage>>

NextLoad ==
    \E r \in Req :
        \/ LoadArrive(r)
        \/ LoadBegin(r)
        \/ LoadStep(r)
        \/ Retire(r)

SpecLoad == InitAudio /\ [][NextLoad]_vars

----------------------------------------------------------------------------
(* The whole gateway: every route at once.  The properties below are each  *)
(* checked under the specification of the routes they speak about.         *)

Next == NextChat \/ NextRate \/ NextAudio \/ NextLoad

Spec == Init /\ [][Next]_vars

----------------------------------------------------------------------------
(* Properties of /chat and of the limiter *)

IsChat(r) == req[r].route = "chat"
IsSpeech(r) == req[r].route = "speech"
Done(r) == pc[r] = "done"

\* Some collaborator call of the request raised
StageFailed(r) == \E i \in 1..Len(calls[r]) : ~calls[r][i].ok

\* The round trip of the specification: source -> pivot, generate, pivot -> source
ChatRoundTrip(t) ==
    Translate(Generate(Translate(t, "kan_Knda", "eng_Latn"), settings.max_tokens),
              "eng_Latn", "kan_Knda")

\* C5: the text a successful /chat call returns is the round trip of its own
\* trimmed prompt, whatever other requests were or are being served.
C5_ChatRoundTripPure ==
    \A r \in Req :
        (Done(r) /\ IsChat(r) /\ resp[r].status = 200) =>
            resp[r].body = [op |-> "ChatResponse",
                            response |-> ChatRoundTrip(Strip(req[r].prompt))]

\* Two chat calls with different prompts have both succeeded
C5_Witness ==
    \E r1, r2 \in Req :
        /\ r1 # r2
        /\ Done(r1) /\ IsChat(r1) /\ resp[r1].status = 200
        /\ Done(r2) /\ IsChat(r2) /\ resp[r2].status = 200
        /\ Strip(req[r1].prompt) # Strip(req[r2].prompt)

\* C6: when a stage of /chat fails the call ends with status 500 and an error
\* detail; a ChatResponse only ever carries the translated-back text of a call
\* whose three stages all returned.
C6_ChatFailsWhole ==
    \A r \in Req :
        (Done(r) /\ IsChat(r)) =>
            /\ StageFailed(r) =>
                 (resp[r].status = 500 /\ resp[r].body.op = "detail")
            /\ resp[r].body.op = "ChatResponse" =>
                 /\ ~StageFailed(r)
                 /\ Len(calls[r]) = 3
                 /\ resp[r].body.response = trans_to_kn(loc[r].response)
                 /\ resp[r].body.response.dst = "kan_Knda"

\* The translation back failed after the two earlier stages had returned
C6_Witness ==
    \E r \in Req :
        /\ Done(r) /\ IsChat(r)
        /\ Len(calls[r]) = 3
        /\ calls[r][1].ok /\ calls[r][2].ok /\ ~calls[r][3].ok
        /\ resp[r].status = 500

\* C7: a 1000-character prompt passes validation, a 1001-character prompt is
\* answered with a validation error, an empty or whitespace-only prompt never
\* enters the pipeline, and no rejected prompt reaches a collaborator.
C7_PromptValidation ==
    \A r \in Req :
        (IsChat(r) /\ pc[r] # "received") =>
            LET p == req[r].prompt IN
            /\ (TextLen(p) = 1000 /\ Strip(p) # <<>>) => resp[r].status \notin {400, 422}
            /\ TextLen(p) = 1001 =>
                 (Done(r) /\ resp[r].status = 422 /\ calls[r] = <<>>)
            /\ Strip(p) = <<>> =>
                 /\ pc[r] \in {"limit", "done"}
                 /\ calls[r] = <<>>
                 /\ Done(r) => resp[r].status \in {400, 422, 429}
            /\ resp[r].status \in {400, 422} => calls[r] = <<>>

\* A 1000-character prompt was served while a 1001-character one was rejected
C7_Witness ==
    \E r1, r2 \in Req :
        /\ IsChat(r1) /\ Done(r1) /\ TextLen(req[r1].prompt) = 1000
        /\ resp[r1].status = 200
        /\ IsChat(r2) /\ Done(r2) /\ TextLen(req[r2].prompt) = 1001
        /\ resp[r2].status = 422

\* A whitespace-only prompt was rejected by the body of chat
C7_WitnessBlank ==
    \E r \in Req :
        /\ IsChat(r) /\ Done(r) /\ req[r].prompt # <<>> /\ Strip(req[r].prompt) = <<>>
        /\ resp[r].status = 400

ConfiguredLimit(route) ==
    IF route = "chat" THEN settings.chat_rate_limit ELSE settings.speech_rate_limit

\* C8: the limiter's check of a request counts one hit on the request's own
\* route and none on the other; up to the configured limit N of the route the
\* request is let through, a later one of the window is answered 429 without
\* a single collaborator call, and an answered request makes no further call.
C8_RateLimit ==
    [][\A r \in Req :
          /\ (pc[r] = "limit" /\ pc'[r] # "limit") =>
                LET route == loc[r].route
                    N == ConfiguredLimit(route)
                IN  /\ hits'[route] = hits[route] + 1
                    /\ \A o \in Routes \ {route} : hits'[o] = hits[o]
                    /\ hits'[route] <= N => resp'[r].status # 429
                    /\ hits'[route] > N =>
                         /\ resp'[r].status = 429
                         /\ pc'[r] = "done"
                         /\ calls'[r] = <<>>
          /\ (Done(r) /\ pc'[r] = "done") => calls'[r] = calls[r]
      ]_vars

\* With different limits on the two routes, the N-th speech request of the
\* window was served and the (N+1)-th rejected while /chat still has budget
C8_Witness ==
    \E r1, r2 \in Req :
        /\ settings.speech_rate_limit # settings.chat_rate_limit
        /\ IsSpeech(r1) /\ Done(r1) /\ resp[r1].status = 200
        /\ IsSpeech(r2) /\ Done(r2) /\ resp[r2].status = 429 /\ calls[r2] = <<>>
        /\ hits["speech"] = settings.speech_rate_limit + 1
        /\ hits["chat"] < settings.chat_rate_limit

----------------------------------------------------------------------------
(* Properties of /transcribe/ and /transcribe_batch/ *)

IsTranscribe(r) == req[r].route = "transcribe"
IsBatch(r) == req[r].route = "batch"

AllCallsReturned(r) == \A j \in 1..Len(calls[r]) : calls[r][j].ok

\* The text one upload transcribes to when every step succeeds
Transcription(file, language) ==
    transcribe(Normalize(Decode(file)), ChunkCount(file.duration), LanguageId(language))

\* C1: once a /transcribe/ call has been answered, whether it succeeded or
\* failed at any step, no temporary file made for it is left on storage.
C1_NoTempFilesRemain ==
    \A r \in Req : (Done(r) /\ IsTranscribe(r)) => NoFilesOf(r)

C3_BatchReturnsAll ==
    \A r \in Req :
        (/\ Done(r) /\ IsBatch(r)
         /\ \A i \in 1..Len(req[r].files) : Sound(req[r].files[i])
         /\ AllCallsReturned(r)) =>
            /\ resp[r].status = 200
            /\ Len(resp[r].body.transcriptions) = Len(req[r].files)
            /\ \A i \in 1..Len(req[r].files) :
                 resp[r].body.transcriptions[i] = Transcription(req[r].files[i], req[r].language)

\* The upload a handler is at
CurrentFile(r) == IF IsBatch(r) THEN req[r].files[loc[r].i] ELSE req[r].file

\* C4: an upload with an extension other than wav and mp3 is answered with
\* status 400, on both routes, before any decode call and any temporary file.
C4_UnsupportedIs400 ==
    \A r \in Req :
        (/\ Done(r) /\ (IsTranscribe(r) \/ IsBatch(r))
         /\ Unsupported(FileExtension(CurrentFile(r).filename))) =>
            /\ resp[r].status = 400
            /\ calls[r] = <<>>
            /\ NoFilesOf(r)

\* C9: a sound upload of a single chunk whose calls all return is answered
\* with status 200 and the text of one recognition of that chunk.
C9_SingleChunkDirect ==
    \A r \in Req :
        (/\ Done(r) /\ IsTranscribe(r)
         /\ Sound(req[r].file)
         /\ ChunkCount(req[r].file.duration) = 1
         /\ AllCallsReturned(r)) =>
            /\ resp[r].status = 200
            /\ resp[r].body.text =
                 <<Recognize(Normalize(Decode(req[r].file)), 1, LanguageId(req[r].language))>>

RecognitionFailed(r) ==
    \E j \in 1..Len(calls[r]) : calls[r][j].fn = "asr.recognize" /\ ~calls[r][j].ok

\* C10: when the recognition of a chunk fails, the /transcribe/ call is
\* answered with status 500 and an error detail, never with text.
C10_ChunkFailureFailsCall ==
    \A r \in Req :
        (Done(r) /\ IsTranscribe(r) /\ RecognitionFailed(r)) =>
            (resp[r].status = 500 /\ resp[r].body.op = "detail")

\* The second chunk failed after the first had been recognised
C10_Witness ==
    \E r \in Req :
        /\ Done(r) /\ IsTranscribe(r)
        /\ \E j \in 1..Len(calls[r]) :
              /\ calls[r][j].fn = "asr.recognize" /\ calls[r][j].ok
              /\ j < Len(calls[r])
              /\ calls[r][j + 1].fn = "asr.recognize" /\ ~calls[r][j + 1].ok

\* C11: the audio a handler hands to asr_manager.split_audio is always at
\* 16 kHz and mono, whatever the sample rate and channel count of the upload.
C11_SplitterGetsCanonical ==
    \A r \in Req :
        ((IsTranscribe(r) \/ IsBatch(r)) /\ pc[r] = "split") =>
            (loc[r].audio.frame_rate = 16000 /\ loc[r].audio.channels = 1)

\* Some upload of the batch has an extension other than wav and mp3
HasUnsupported(files) ==
    \E k \in 1..Len(files) : Unsupported(FileExtension(files[k].filename))

\* C12: a batch in which some upload k has an unsupported extension is refused
\* before a temporary file exists and before a collaborator is called for any
\* upload of that request, the uploads before k included.
C12_ValidationBeforeResources ==
    \A r \in Req :
        (IsBatch(r) /\ HasUnsupported(req[r].files)) =>
            (calls[r] = <<>> /\ NoFilesOf(r))

\* The handler of the request is between the start and the return of a
\* collaborator call: the call is synchronous, so the handler is at that line
InCollaboratorCall(r) ==
    /\ loop = r
    /\ pc[r] \in {"translate_in", "generate", "translate_back",
                 "synthesize", "split", "transcribe"}

\* C13: while one request waits inside a collaborator call, another request
\* that has been received can proceed: its handler can start.
C13_OthersProceed ==
    \A a, b \in Req :
        (a # b /\ InCollaboratorCall(a) /\ pc[b] = "received") =>
            \/ ENABLED ChatValidate(b)
            \/ ENABLED SpeechValidate(b)
            \/ ENABLED TranscribeBegin(b)
            \/ ENABLED BatchBegin(b)

----------------------------------------------------------------------------
(* Order of the collaborator calls of /chat *)

\* C14: one /chat call invokes trans_to_en.translate, llm_manager.generate and
\* trans_to_kn.translate in that order, each on the output of the one before;
\* a call that succeeds made each exactly once, after a stage that raised no
\* later stage is invoked and none is tried again.
C14_ChatStagesInOrder ==
    \A r \in Req :
        IsChat(r) =>
            LET c == calls[r]
                n == Len(c)
                order == <<"trans_to_en.translate", "llm_manager.generate",
                           "trans_to_kn.translate">>
            IN  /\ n <= 3
                /\ \A j \in 1..n : c[j].fn = order[j]
                /\ \A j \in 1..(n - 1) : c[j].ok
                /\ n >= 1 => c[1].arg = loc[r].prompt
                /\ n >= 2 => c[2].arg = Translate(c[1].arg, "kan_Knda", "eng_Latn")
                /\ n >= 3 => c[3].arg = Generate(c[2].arg, settings.max_tokens)
                /\ (Done(r) /\ resp[r].status = 200) => (n = 3 /\ c[3].ok)
                /\ (n >= 1 /\ ~c[n].ok) => (Done(r) /\ resp[r].status = 500)

\* One call ran its three stages and was answered, another stopped at the
\* generation that raised
C14_Witness ==
    \E a, b \in Req :
        /\ IsChat(a) /\ Done(a) /\ resp[a].status = 200 /\ Len(calls[a]) = 3
        /\ IsChat(b) /\ Done(b) /\ Len(calls[b]) = 2 /\ ~calls[b][2].ok

----------------------------------------------------------------------------
(* The language of a transcription *)

\* asr_manager.transcribe returned for the request: every chunk was recognised
Transcribed(r) ==
    /\ pc[r] \in {"finally", "done"}
    /\ loc[r].route = "transcribe"
    /\ \E j \in 1..Len(calls[r]) : calls[r][j].fn = "asr.recognize"
    /\ ~RecognitionFailed(r)

\* C15: a /transcribe/ request whose language code is not a key of
\* asr_manager.model_language is not refused for it: it goes through the
\* pipeline and is recognised with asr_manager.default_language, and a request
\* with a known code is recognised with the identifier the mapping gives it.
C15_LanguageFallback ==
    \A r \in Req :
        IsTranscribe(r) =>
            LET language == req[r].language
                expected == IF language \in DOMAIN model_language
                            THEN model_language[language]
                            ELSE default_language
            IN  /\ (Done(r) /\ calls[r] = <<>>) =>
                       Unsupported(FileExtension(req[r].file.filename))
                /\ Transcribed(r) =>
                       /\ Len(loc[r].transcription) = ChunkCount(req[r].file.duration)
                       /\ \A k \in 1..Len(loc[r].transcription) :
                            loc[r].transcription[k].language_id = expected

\* An upload was recognised to the end under a code the mapping does not
\* have, another under a code it has
C15_Witness ==
    \E a, b \in Req :
        /\ IsTranscribe(a) /\ req[a].language \notin DOMAIN model_language
        /\ Transcribed(a)
        /\ loc[a].transcription[1].language_id = default_language
        /\ IsTranscribe(b) /\ req[b].language \in DOMAIN model_language
        /\ Transcribed(b)

----------------------------------------------------------------------------
(* Temporary files of a batch *)

\* The uploads of the request that have a temporary file on disk
UploadsWithFiles(r) == {f.file : f \in {g \in storage : g.owner = r}}

----------------------------------------------------------------------------
(* Properties of /load_all_models *)

IsLoad(r) == req[r].route = "load"

\* C17: load_all_models loads the LLM, the translation to the pivot language,
\* the translation from it, the TTS, the VLM and the ASR manager in that
\* order and answers success only after all six loads returned; when load j
\* raises no later load is attempted, the answer is HTTP 500, and the
\* managers loaded before j stay loaded.
C17_LoadAllInOrder ==
    \A r \in Req :
        IsLoad(r) =>
            LET c == calls[r]
                n == Len(c)
                order == <<"llm_manager", "trans_to_en", "trans_to_kn",
                           "tts_manager", "vlm_manager", "asr_manager">>
            IN  /\ n <= 6
                /\ \A j \in 1..n : c[j].fn = "load" /\ c[j].arg.manager = order[j]
                /\ \A j \in 1..(n - 1) : c[j].ok
                /\ \A j \in 1..n : c[j].ok => order[j] \in loaded
                /\ (Done(r) /\ resp[r].status = 200) =>
                       (n = 6 /\ c[6].ok /\ resp[r].body.status = "success")
                /\ (n >= 1 /\ ~c[n].ok) =>
                       (Done(r) /\ resp[r].status = 500 /\ resp[r].body.op = "detail")
                /\ Done(r) => resp[r].status \in {200, 500}

\* One request loaded all six managers and was answered success; another was
\* answered 500 when its fourth load raised, with the three before it loaded
C17_Witness ==
    \E a, b \in Req :
        /\ IsLoad(a) /\ Done(a) /\ resp[a].status = 200 /\ Len(calls[a]) = 6
        /\ IsLoad(b) /\ Done(b) /\ resp[b].status = 500
        /\ Len(calls[b]) = 4 /\ ~calls[b][4].ok
        /\ {"llm_manager", "trans_to_en", "trans_to_kn"} \subseteq loaded

====
